---- MODULE Spec2Model ----
(***************************************************************************)
(* Model of src/app.py: a Slack workflow step (edit / save / execute)      *)
(* that creates a Salesforce Case, plus the process entrypoint             *)
(* (MODE=test self-test or the Socket Mode listener).                      *)
(*                                                                         *)
(* One invocation of the workflow step is identified by a number in        *)
(* Invocations.  The callback objects Bolt hands to a listener (ack,       *)
(* configure, update, complete, fail) are per invocation; calls[i] is the  *)
(* sequence of calls the listeners made on invocation i's callbacks.       *)
(* The Salesforce service and the Slack host are the environment: the      *)
(* outcome of sf.Case.create and of complete() are drawn from small sets.  *)
(***************************************************************************)
EXTENDS Integers, Sequences, FiniteSets, TLC

\* ------------------------------------------------------------------ bounds

\* Number of workflow invocations the host delivers concurrently.
NumInv == 2

Invocations == 1..NumInv

\* ------------------------------------------------------- Python primitives

\* An exception object: its class and its single argument.
KeyError(k) == [type |-> "KeyError", arg |-> k]

\* str(e): KeyError renders the repr of its key (quoted); the other
\* exception classes used here render their argument as it is.
Str(e) == IF e.type = "KeyError" THEN "'" \o e.arg \o "'" ELSE e.arg

\* dict.get(key): the value, or None when the key is absent.
PyNone == [type |-> "NoneType"]
Get(d, k) == IF k \in DOMAIN d THEN d[k] ELSE PyNone

\* f with its domain cut down to D.
Restrict(f, D) == [x \in (DOMAIN f) \cap D |-> f[x]]

\* ---------------------------------------------------------- input domains

\* Values a user can type into the plain-text inputs: an empty subject and
\* one padded with blanks, a multi-line description, a priority that is
\* not one of High/Medium/Low.
SubjectValues == {"", " Printer down "}
DescriptionValues == {"line1\nline2"}
PriorityValues == {"urgent!"}

\* Identifiers of record ids the CRM may generate, and the ways its create
\* call may fail (rejection of the payload, transport failure).
Ids == {"5003xyz", "5003abc"}
RemoteErrors ==
    { [type |-> "SalesforceMalformedRequest", arg |-> "Malformed request: REQUIRED_FIELD_MISSING"],
      [type |-> "ConnectionError", arg |-> ""] }

\* What sf.Case.create does with one call: returns a result object that
\* carries the generated id, or raises.
RemoteOutcomes ==
    { [ok |-> TRUE, response |-> [id |-> x, success |-> TRUE, errors |-> <<>>]] : x \in Ids }
    \cup { [ok |-> FALSE, error |-> e] : e \in RemoteErrors }

\* What the host does with complete(outputs=...): accepts it, or the Web
\* API call behind it raises.
CompleteErrors == { [type |-> "SlackApiError", arg |-> "The request to the Slack API failed."] }
CompleteOutcomes == { [ok |-> TRUE] } \cup { [ok |-> FALSE, error |-> e] : e \in CompleteErrors }

\* Environment variables holding credentials.
CrmCredentials == <<"SALESFORCE_USERNAME", "SALESFORCE_PASSWORD", "SALESFORCE_SECURITY_TOKEN">>
Credentials ==
    {"SLACK_BOT_TOKEN", "SLACK_APP_TOKEN"} \cup { CrmCredentials[k] : k \in 1..3 }
Modes == {"test", "slack"}

VARIABLES
    env,        \* the process environment: mode, credentials present, whether the CRM accepts the login
    pc,         \* entrypoint position: "start", "listening", "exited"
    exitStatus, \* "running", "returned" (fell off the end) or "raised" (an exception left the entrypoint)
    logged,     \* the logger.error messages, in order
    sf,         \* the shared CRM client: <<>> before login, <<session>> after
    sfCalls,    \* sfCalls[c]: the payloads of the sf.Case.create calls made for caller c
                \*   (caller 0 is run_test, caller i > 0 is invocation i's execute_step)
    stage,      \* stage[i]: where invocation i is in the host's protocol
    view,       \* view[i]: <<>> or <<the submitted view["state"]["values"]>>
    bound,      \* bound[i]: <<>> or <<what update() bound for the step>>
    step,       \* step[i]: <<>> or <<the step object passed to execute_step>>
    response,   \* response[c]: <<>> or <<the outcome of caller c's CRM call>>
    adapter,    \* adapter[c]: <<>> or <<what create_salesforce_case returned or raised to caller c>>
    completion, \* completion[i]: <<>> or <<the outcome of complete()>>
    fault,      \* fault[i]: <<>> or <<the exception that left a listener uncaught>>
    calls       \* calls[i]: the calls made on invocation i's callbacks, in order

vars == <<env, pc, exitStatus, logged, sf, sfCalls, stage, view, bound, step,
          response, adapter, completion, fault, calls>>

workflowVars == <<stage, view, bound, step, completion, fault, calls>>

Callers == 0..NumInv

\* ------------------------------------------------------ the CRM adapter

\* A payload whose Status is not the fixed "New".
CasePayloadOpen(subject, description, priority) ==
    [Subject |-> subject, Description |-> description, Priority |-> priority, Status |-> "Open"]

\* The object passed to sf.Case.create.
CasePayload(subject, description, priority) ==
    [Subject |-> subject, Description |-> description, Priority |-> priority, Status |-> "New"]

\* An adapter that tries the remote call a second time when it failed.
create_salesforce_case_retry(subject, description, priority, outcome) ==
    IF outcome.ok
    THEN [sent |-> <<CasePayload(subject, description, priority)>>,
          raised |-> FALSE, value |-> outcome.response, logged |-> <<>>]
    ELSE [sent |-> <<CasePayload(subject, description, priority),
                     CasePayload(subject, description, priority)>>,
          raised |-> TRUE, error |-> outcome.error,
          logged |-> <<"Failed to create Salesforce case: " \o Str(outcome.error)>>]

\* create_salesforce_case, given what the one remote call does (outcome):
\* sent is the sequence of payloads it passed to sf.Case.create; it returns
\* the remote response itself, or logs and re-raises the error it caught.
create_salesforce_case(subject, description, priority, outcome) ==
    IF outcome.ok
    THEN [sent |-> <<CasePayload(subject, description, priority)>>,
          raised |-> FALSE, value |-> outcome.response, logged |-> <<>>]
    ELSE [sent |-> <<CasePayload(subject, description, priority)>>,
          raised |-> TRUE, error |-> outcome.error,
          logged |-> <<"Failed to create Salesforce case: " \o Str(outcome.error)>>]

\* ------------------------------------------------------------ entrypoint

LoginErrors == { [type |-> "SalesforceAuthenticationFailed", arg |-> "INVALID_LOGIN"] }
Session == [session |-> "sid"]

\* The first of the names (in the order the code reads them) that the
\* environment does not hold, as a set of at most one index.
FirstAbsent(names, present) ==
    { k \in 1..Len(names) : /\ names[k] \notin present
                            /\ \A j \in 1..(k-1) : names[j] \in present }

\* init_salesforce: reads the three CRM credentials, logs in; on any error
\* logs it and re-raises.
init_salesforce(e) ==
    LET absent == FirstAbsent(CrmCredentials, e.present)
        err == IF absent # {}
               THEN KeyError(CrmCredentials[CHOOSE k \in absent : TRUE])
               ELSE CHOOSE x \in LoginErrors : TRUE
    IN  IF absent = {} /\ e.loginOk
        THEN [raised |-> FALSE, value |-> Session, logged |-> <<>>]
        ELSE [raised |-> TRUE, error |-> err,
              logged |-> <<"Error connecting to Salesforce: " \o Str(err)>>]

TestData ==
    [subject |-> "Test Subject",
     description |-> "This is a test description for the case.",
     priority |-> "High"]

\* run_test, given what the remote create call would do: logs in, creates
\* the fixed case; any error is logged and re-raised.  created holds the
\* result of create_salesforce_case when it was called.
run_test(e, outcome) ==
    LET s == init_salesforce(e)
        c == create_salesforce_case(TestData.subject, TestData.description,
                                    TestData.priority, outcome)
    IN  IF s.raised
        THEN [raised |-> TRUE, sf |-> <<>>, created |-> <<>>,
              logged |-> s.logged \o <<"Test failed: " \o Str(s.error)>>]
        ELSE IF c.raised
        THEN [raised |-> TRUE, sf |-> <<s.value>>, created |-> <<c>>,
              logged |-> c.logged \o <<"Test failed: " \o Str(c.error)>>]
        ELSE [raised |-> FALSE, sf |-> <<s.value>>, created |-> <<c>>, logged |-> <<>>]

\* init_slack_app up to the registration of the step: needs the bot token,
\* then logs in to the CRM.  Nothing here catches.
init_slack_app(e) ==
    LET s == init_salesforce(e)
    IN  IF "SLACK_BOT_TOKEN" \notin e.present
        THEN [raised |-> TRUE, error |-> KeyError("SLACK_BOT_TOKEN"), sf |-> <<>>, logged |-> <<>>]
        ELSE IF s.raised
        THEN [raised |-> TRUE, error |-> s.error, sf |-> <<>>, logged |-> s.logged]
        ELSE [raised |-> FALSE, sf |-> <<s.value>>, logged |-> <<>>]

\* __main__ with MODE=test: run_test(), whose exception leaves the process.
main_test ==
    /\ pc = "start"
    /\ env.mode = "test"
    /\ \E outcome \in RemoteOutcomes :
         LET r == run_test(env, outcome)
         IN  /\ sf' = r.sf
             /\ IF r.created = <<>>
                THEN UNCHANGED <<sfCalls, response, adapter>>
                ELSE /\ sfCalls' = [sfCalls EXCEPT ![0] = @ \o r.created[1].sent]
                     /\ response' = [response EXCEPT ![0] = <<outcome>>]
                     /\ adapter' = [adapter EXCEPT ![0] = r.created]
             /\ logged' = logged \o r.logged
             /\ exitStatus' = IF r.raised THEN "raised" ELSE "returned"
    /\ pc' = "exited"
    /\ UNCHANGED <<env, workflowVars>>

\* __main__ in the default mode: init_slack_app(), the app token, then
\* handler.start(); the except clause logs and lets the script end.
main_slack ==
    /\ pc = "start"
    /\ env.mode # "test"
    /\ LET a == init_slack_app(env)
           err == IF a.raised THEN <<a.error>>
                  ELSE IF "SLACK_APP_TOKEN" \notin env.present
                  THEN <<KeyError("SLACK_APP_TOKEN")>>
                  ELSE <<>>
       IN  /\ sf' = a.sf
           /\ IF err = <<>>
              THEN /\ pc' = "listening"
                   /\ logged' = logged \o a.logged
                   /\ exitStatus' = exitStatus
              ELSE /\ pc' = "exited"
                   /\ logged' = logged \o a.logged
                                  \o <<"Failed to start app: " \o Str(err[1])>>
                   /\ exitStatus' = "returned"
    /\ UNCHANGED <<env, sfCalls, response, adapter, workflowVars>>

\* ------------------------------------------------- the workflow step

\* The three form fields: block_id and action_id in the form, and the name
\* of the step input each is bound to.
BlockIds == <<"case_subject_block", "case_description_block", "case_priority_block">>
ActionIds == <<"case_subject_input", "case_description_input", "case_priority_input">>
InputNames == <<"case_subject", "case_description", "case_priority">>
FieldValues == <<SubjectValues, DescriptionValues, PriorityValues>>

\* The calls a listener makes on the callbacks it is given.
Ack == [fn |-> "ack"]
Configure(blocks) == [fn |-> "configure", blocks |-> blocks]
Update(inputs, outputs) == [fn |-> "update", inputs |-> inputs, outputs |-> outputs]
Complete(outputs) == [fn |-> "complete", outputs |-> outputs]
Fail(error) == [fn |-> "fail", error |-> error]

\* The form edit_step passes to configure().
EditBlocks ==
    << [type |-> "input",
        block_id |-> "case_subject_block",
        element |-> [type |-> "plain_text_input",
                     action_id |-> "case_subject_input",
                     placeholder |-> [type |-> "plain_text", text |-> "Enter case subject"]],
        label |-> [type |-> "plain_text", text |-> "Case Subject"]],
       [type |-> "input",
        block_id |-> "case_description_block",
        element |-> [type |-> "plain_text_input",
                     action_id |-> "case_description_input",
                     multiline |-> TRUE,
                     placeholder |-> [type |-> "plain_text", text |-> "Enter case description"]],
        label |-> [type |-> "plain_text", text |-> "Case Description"]],
       [type |-> "input",
        block_id |-> "case_priority_block",
        element |-> [type |-> "plain_text_input",
                     action_id |-> "case_priority_input",
                     placeholder |-> [type |-> "plain_text", text |-> "High/Medium/Low"]],
        label |-> [type |-> "plain_text", text |-> "Case Priority"]] >>

\* An edit_step that acknowledges only after it configured the form.
EditStepCallsLateAck == <<Configure(EditBlocks), Ack>>

\* edit_step: the calls it makes, in order.  It reads nothing.
EditStepCalls == <<Ack, Configure(EditBlocks)>>

\* The submissions a user can make: view["state"]["values"], a map from
\* block_id to {action_id: {"value": text}}.  A field is submitted whole,
\* or its block is absent, or its block is there without the action.
FieldShapes == {"whole", "no_block", "no_action"}
Submission(v, shape) ==
    [b \in { BlockIds[k] : k \in { j \in 1..3 : shape[j] # "no_block" } } |->
        LET k == CHOOSE j \in 1..3 : BlockIds[j] = b
        IN  IF shape[k] = "no_action"
            THEN [a \in {} |-> [value |-> ""]]
            ELSE [a \in {ActionIds[k]} |-> [value |-> v[k]]]]
Submissions ==
    { Submission(v, shape) :
        v \in { w \in [1..3 -> UNION {FieldValues[k] : k \in 1..3}] :
                  \A k \in 1..3 : w[k] \in FieldValues[k] },
        shape \in [1..3 -> FieldShapes] }

\* The submissions that hold all three fields.
FullSubmissions ==
    { values \in Submissions :
        \A k \in 1..3 : /\ BlockIds[k] \in DOMAIN values
                        /\ ActionIds[k] \in DOMAIN values[BlockIds[k]] }

\* values[block_id][action_id]["value"] for field k: the KeyError the first
\* failing subscript raises, as a sequence of at most one element.
ExtractError(values, k) ==
    IF BlockIds[k] \notin DOMAIN values THEN <<KeyError(BlockIds[k])>>
    ELSE IF ActionIds[k] \notin DOMAIN values[BlockIds[k]] THEN <<KeyError(ActionIds[k])>>
    ELSE IF "value" \notin DOMAIN values[BlockIds[k]][ActionIds[k]] THEN <<KeyError("value")>>
    ELSE <<>>

\* A save_step that strips surrounding blanks from what was typed.
Strip(text) == IF text = " Printer down " THEN "Printer down" ELSE text
SavedInputsStripped(values) ==
    [n \in { InputNames[k] : k \in 1..3 } |->
        LET k == CHOOSE j \in 1..3 : InputNames[j] = n
        IN  [value |-> Strip(values[BlockIds[k]][ActionIds[k]]["value"])]]

\* The inputs dict save_step builds when every subscript succeeds.
SavedInputs(values) ==
    [n \in { InputNames[k] : k \in 1..3 } |->
        LET k == CHOOSE j \in 1..3 : InputNames[j] = n
        IN  [value |-> values[BlockIds[k]][ActionIds[k]]["value"]]]

\* A save_step that skips the fields it cannot find and binds the rest.
SaveStepResultLenient(values) ==
    LET good == { k \in 1..3 : ExtractError(values, k) = <<>> }
        partial == [n \in { InputNames[k] : k \in good } |->
                      LET k == CHOOSE j \in 1..3 : InputNames[j] = n
                      IN  [value |-> values[BlockIds[k]][ActionIds[k]]["value"]]]
    IN  [calls |-> <<Ack, Update(partial, <<>>)>>, fault |-> <<>>]

\* save_step on view["state"]["values"]: ack(), then the dict literal is
\* evaluated field by field (the first failing subscript raises, uncaught),
\* then update(inputs=inputs, outputs=[]).
SaveStepResult(values) ==
    LET bad == { k \in 1..3 : ExtractError(values, k) # <<>> }
        first == CHOOSE k \in bad : \A j \in bad : k <= j
    IN  IF bad = {}
        THEN [calls |-> <<Ack, Update(SavedInputs(values), <<>>)>>, fault |-> <<>>]
        ELSE [calls |-> <<Ack>>, fault |-> ExtractError(values, first)]

\* inputs[name]["value"] for the three names, in argument order: the
\* KeyError of the first failing subscript, as a sequence of at most one.
InputError(inputs) ==
    LET bad == { k \in 1..3 : \/ InputNames[k] \notin DOMAIN inputs
                              \/ "value" \notin DOMAIN inputs[InputNames[k]] }
        first == CHOOSE k \in bad : \A j \in bad : k <= j
    IN  IF bad = {} THEN <<>>
        ELSE IF InputNames[first] \notin DOMAIN inputs THEN <<KeyError(InputNames[first])>>
        ELSE <<KeyError("value")>>

\* An execute_step that reads the inputs from a slot all invocations share
\* (the step of the lowest-numbered invocation that has been executed).
StepInputsShared(i) ==
    step[CHOOSE j \in Invocations :
            /\ step[j] # <<>>
            /\ \A k \in Invocations : step[k] # <<>> => j <= k][1]["inputs"]

\* The step inputs execute_step works on for invocation i.
StepInputs(i) == step[i][1]["inputs"]

\* An execute_step that reports a fixed text instead of the error's.
ExecuteStepCallsFixedMessage(result, completeOutcome) ==
    IF result.raised
    THEN <<Fail([message |-> "Failed to create Salesforce case"])>>
    ELSE <<Complete([case_id |-> Get(result.value, "id")])>>
         \o (IF completeOutcome.ok THEN <<>>
             ELSE <<Fail([message |-> Str(completeOutcome.error)])>>)

\* execute_step after create_salesforce_case returned or raised (result):
\* the calls it makes, given what complete() does when it is called.
\* complete() is inside the try block, so an error it raises is caught by
\* the same except clause and reported through fail().
ExecuteStepCalls(result, completeOutcome) ==
    IF result.raised
    THEN <<Fail([message |-> Str(result.error)])>>
    ELSE <<Complete([case_id |-> Get(result.value, "id")])>>
         \o (IF completeOutcome.ok THEN <<>>
             ELSE <<Fail([message |-> Str(completeOutcome.error)])>>)

\* ---------------------------------------------------------------- actions

Init ==
    /\ env \in [mode : Modes, present : SUBSET Credentials, loginOk : BOOLEAN]
    /\ pc = "start"
    /\ exitStatus = "running"
    /\ logged = <<>>
    /\ sf = <<>>
    /\ sfCalls = [c \in Callers |-> <<>>]
    /\ stage = [i \in Invocations |-> "idle"]
    /\ view = [i \in Invocations |-> <<>>]
    /\ bound = [i \in Invocations |-> <<>>]
    /\ step = [i \in Invocations |-> <<>>]
    /\ response = [c \in Callers |-> <<>>]
    /\ adapter = [c \in Callers |-> <<>>]
    /\ completion = [i \in Invocations |-> <<>>]
    /\ fault = [i \in Invocations |-> <<>>]
    /\ calls = [i \in Invocations |-> <<>>]

\* The host delivers the edit event of invocation i.
edit_step(i) ==
    /\ pc = "listening"
    /\ stage[i] = "idle"
    /\ calls' = [calls EXCEPT ![i] = @ \o EditStepCalls]
    /\ stage' = [stage EXCEPT ![i] = "configuring"]
    /\ UNCHANGED <<env, pc, exitStatus, logged, sf, sfCalls, view, bound, step,
                   response, adapter, completion, fault>>

\* The user submits the form of invocation i; the host stores what update()
\* is given.  An exception leaving the listener aborts the invocation.
save_step(i) ==
    /\ pc = "listening"
    /\ stage[i] = "configuring"
    /\ \E values \in Submissions :
         LET r == SaveStepResult(values)
             upd == SelectSeq(r.calls, LAMBDA c : c.fn = "update")
         IN  /\ view' = [view EXCEPT ![i] = <<values>>]
             /\ calls' = [calls EXCEPT ![i] = @ \o r.calls]
             /\ fault' = [fault EXCEPT ![i] = r.fault]
             /\ bound' = [bound EXCEPT ![i] =
                            IF upd = <<>> THEN <<>>
                            ELSE <<[inputs |-> upd[1].inputs, outputs |-> upd[1].outputs]>>]
             /\ stage' = [stage EXCEPT ![i] = IF r.fault = <<>> THEN "collected" ELSE "aborted"]
    /\ UNCHANGED <<env, pc, exitStatus, logged, sf, sfCalls, step, response, adapter,
                   completion>>

\* The host executes the step of invocation i with the inputs bound for it
\* (a host may also hand over a step that lacks one of them).  execute_step
\* reads the three inputs, a failing subscript going straight to the except
\* clause and fail(); otherwise it enters create_salesforce_case and blocks
\* in the remote call, while other invocations' listeners run.
execute_step_call(i) ==
    /\ pc = "listening"
    /\ stage[i] = "collected"
    /\ \E dropped \in {{}} \cup { {InputNames[k]} : k \in 1..3 } :
         step' = [step EXCEPT ![i] =
                    <<[inputs |-> Restrict(bound[i][1].inputs,
                                           { InputNames[k] : k \in 1..3 } \ dropped)]>>]
    /\ LET err == InputError(StepInputs(i)')
       IN  IF err # <<>>
           THEN /\ calls' = [calls EXCEPT ![i] = @ \o <<Fail([message |-> Str(err[1])])>>]
                /\ stage' = [stage EXCEPT ![i] = "done"]
           ELSE /\ calls' = calls
                /\ stage' = [stage EXCEPT ![i] = "calling"]
    /\ UNCHANGED <<env, pc, exitStatus, logged, sf, sfCalls, view, bound,
                   response, adapter, completion, fault>>

\* The remote call of invocation i's execute_step is answered (outcome):
\* create_salesforce_case returns or re-raises, and execute_step calls
\* complete() or fail(); the host answers complete() (completeOutcome).
execute_step_return(i) ==
    /\ pc = "listening"
    /\ stage[i] = "calling"
    /\ \E outcome \in RemoteOutcomes, completeOutcome \in CompleteOutcomes :
         LET inputs == StepInputs(i)
             result == create_salesforce_case(inputs["case_subject"]["value"],
                                              inputs["case_description"]["value"],
                                              inputs["case_priority"]["value"],
                                              outcome)
             made == ExecuteStepCalls(result, completeOutcome)
         IN  /\ sfCalls' = [sfCalls EXCEPT ![i] = @ \o result.sent]
             /\ response' = [response EXCEPT ![i] = <<outcome>>]
             /\ adapter' = [adapter EXCEPT ![i] = <<result>>]
             /\ completion' = [completion EXCEPT ![i] =
                                 IF \E k \in 1..Len(made) : made[k].fn = "complete"
                                 THEN <<completeOutcome>> ELSE <<>>]
             /\ calls' = [calls EXCEPT ![i] = @ \o made]
             /\ logged' = logged \o result.logged
    /\ stage' = [stage EXCEPT ![i] = "done"]
    /\ UNCHANGED <<env, pc, exitStatus, sf, view, bound, step, fault>>

Next ==
    \/ main_test
    \/ main_slack
    \/ \E i \in Invocations : edit_step(i)
    \/ \E i \in Invocations : save_step(i)
    \/ \E i \in Invocations : execute_step_call(i)
    \/ \E i \in Invocations : execute_step_return(i)

Spec == Init /\ [][Next]_vars

\* ================================================================ claims

\* The calls named f made on invocation i's callbacks, in order.
CallsOf(i, f) == SelectSeq(calls[i], LAMBDA c : c.fn = f)

\* Invocation i's execute_step got an answer from the CRM: a record / an error.
RemoteSucceeded(c) == response[c] # <<>> /\ response[c][1].ok
RemoteFailed(c) == response[c] # <<>> /\ ~response[c][1].ok

\* The value submitted for field k in invocation i's view.
Submitted(i, k) == view[i][1][BlockIds[k]][ActionIds[k]]["value"]

\* C1: when the CRM create call of an execution succeeds with id X,
\* complete is called exactly once, with outputs {case_id: X}, and fail is
\* not called in that execution.
C1_SuccessCompletesOnce ==
    \A i \in Invocations :
        (stage[i] = "done" /\ RemoteSucceeded(i)) =>
            /\ CallsOf(i, "complete") =
                   <<[fn |-> "complete", outputs |-> [case_id |-> response[i][1].response.id]]>>
            /\ CallsOf(i, "fail") = <<>>

\* C2: when the CRM create call of an execution raises E, fail is called
\* with the text of E as its message and complete is not called.
C2_RemoteErrorFails ==
    \A i \in Invocations :
        RemoteFailed(i) =>
            /\ CallsOf(i, "fail") =
                   <<[fn |-> "fail", error |-> [message |-> response[i][1].error.arg]]>>
            /\ CallsOf(i, "complete") = <<>>

C2_Witness ==
    \E i \in Invocations :
        /\ RemoteFailed(i)
        /\ response[i][1].error.type = "SalesforceMalformedRequest"
        /\ Len(CallsOf(i, "fail")) = 1

\* C3: every finished run of execute_step has called exactly one of
\* complete / fail, exactly once in total.
C3_ExactlyOneTerminalCall ==
    \A i \in Invocations :
        stage[i] = "done" =>
            Len(CallsOf(i, "complete")) + Len(CallsOf(i, "fail")) = 1

\* C4: for a submission holding the three fields, update is called once,
\* with the three inputs bound to exactly the submitted values and with an
\* empty list of outputs.
C4_SaveBindsSubmittedValues ==
    \A i \in Invocations :
        (view[i] # <<>> /\ view[i][1] \in FullSubmissions) =>
            /\ Len(CallsOf(i, "update")) = 1
            /\ LET u == CallsOf(i, "update")[1]
               IN  /\ DOMAIN u.inputs = {"case_subject", "case_description", "case_priority"}
                   /\ u.inputs["case_subject"] = [value |-> Submitted(i, 1)]
                   /\ u.inputs["case_description"] = [value |-> Submitted(i, 2)]
                   /\ u.inputs["case_priority"] = [value |-> Submitted(i, 3)]
                   /\ u.outputs = <<>>

C4_Witness ==
    \E i, j \in Invocations :
        /\ view[i] # <<>> /\ view[i][1] \in FullSubmissions
        /\ view[j] # <<>> /\ view[j][1] \in FullSubmissions
        /\ Submitted(i, 1) = ""
        /\ Submitted(j, 1) = " Printer down "
        /\ Len(CallsOf(i, "update")) = 1
        /\ Len(CallsOf(j, "update")) = 1

\* C5: for a submission lacking one of the three fields, save_step ends
\* with an uncaught KeyError, update is never called (nothing is bound),
\* and the invocation is never executed: no CRM create call is made for it.
C5_MissingFieldAborts ==
    \A i \in Invocations :
        (view[i] # <<>> /\ view[i][1] \notin FullSubmissions) =>
            /\ fault[i] # <<>>
            /\ fault[i][1].type = "KeyError"
            /\ CallsOf(i, "update") = <<>>
            /\ bound[i] = <<>>
            /\ stage[i] = "aborted"
            /\ step[i] = <<>>
            /\ sfCalls[i] = <<>>
            /\ CallsOf(i, "complete") = <<>>
            /\ CallsOf(i, "fail") = <<>>

C5_Witness ==
    \E i, j \in Invocations :
        /\ i # j
        /\ stage[i] = "aborted"
        /\ DOMAIN view[i][1] = {"case_subject_block", "case_description_block"}
        /\ fault[i] = <<KeyError("case_priority_block")>>
        /\ stage[j] = "done"

\* The (subject, description, priority) caller c passed to
\* create_salesforce_case: the fixed test data for run_test, the step's
\* inputs for an invocation.
PassedArgs(c) ==
    IF c = 0
    THEN <<"Test Subject", "This is a test description for the case.", "High">>
    ELSE <<step[c][1].inputs["case_subject"].value,
           step[c][1].inputs["case_description"].value,
           step[c][1].inputs["case_priority"].value>>

\* C6: every object create_salesforce_case sends to the remote create call
\* has exactly the fields Subject, Description, Priority, Status, the first
\* three being the arguments unchanged and Status being "New"; when the
\* remote call succeeds it returns a record with the remote response's id.
C6_PayloadAndReturnedId ==
    \A c \in Callers :
        adapter[c] # <<>> =>
            /\ sfCalls[c] # <<>>
            /\ \A k \in 1..Len(sfCalls[c]) :
                 /\ DOMAIN sfCalls[c][k] = {"Subject", "Description", "Priority", "Status"}
                 /\ sfCalls[c][k].Subject = PassedArgs(c)[1]
                 /\ sfCalls[c][k].Description = PassedArgs(c)[2]
                 /\ sfCalls[c][k].Priority = PassedArgs(c)[3]
                 /\ sfCalls[c][k].Status = "New"
            /\ RemoteSucceeded(c) =>
                 /\ ~adapter[c][1].raised
                 /\ adapter[c][1].value.id = response[c][1].response.id

C6_Witness ==
    \E i \in Invocations :
        /\ adapter[i] # <<>>
        /\ RemoteSucceeded(i)
        /\ PassedArgs(i)[1] = ""
        /\ PassedArgs(i)[3] = "urgent!"
        /\ response[i][1].response.id = "5003xyz"

\* C7: a call of create_salesforce_case makes one remote create attempt and
\* no second one; a failed attempt reaches the caller as the same error.
\* No caller (run_test, or one invocation's execute_step) makes more than
\* one attempt.
C7_SingleAttempt ==
    \A c \in Callers :
        /\ Len(sfCalls[c]) <= 1
        /\ adapter[c] # <<>> => Len(sfCalls[c]) = 1 /\ Len(adapter[c][1].sent) = 1
        /\ RemoteFailed(c) =>
             /\ adapter[c][1].raised
             /\ adapter[c][1].error = response[c][1].error

C7_Witness ==
    \E c \in Invocations :
        /\ RemoteFailed(c)
        /\ stage[c] = "done"
        /\ Len(sfCalls[c]) = 1
        /\ adapter[c][1].raised

\* A startup failure of the environment: a credential the mode reads is
\* absent, or the CRM refuses the login.
CrmStartupFails ==
    \/ \E k \in 1..3 : CrmCredentials[k] \notin env.present
    \/ ~env.loginOk
StartupFails ==
    \/ CrmStartupFails
    \/ env.mode # "test" /\ {"SLACK_BOT_TOKEN", "SLACK_APP_TOKEN"} \ env.present # {}

\* C8: when startup fails (an absent credential, a failed CRM login), in
\* either mode the error is logged and an exception leaves the entrypoint,
\* and the listener is never started; in test mode a failed remote create
\* leaves the entrypoint as an exception too.
C8_StartupFailurePropagates ==
    /\ StartupFails => pc # "listening"
    /\ (pc = "exited" /\ StartupFails) => (logged # <<>> /\ exitStatus = "raised")
    /\ (pc = "exited" /\ env.mode = "test" /\ RemoteFailed(0)) => exitStatus = "raised"

\* The texts of the errors that belong to invocation i: its own CRM error,
\* the KeyError of an input its own step lacks, its own complete() error.
OwnErrorTexts(i) ==
    (IF RemoteFailed(i) THEN {response[i][1].error.arg} ELSE {})
    \cup (IF step[i] = <<>> THEN {}
          ELSE { "'" \o InputNames[k] \o "'" :
                   k \in { j \in 1..3 : InputNames[j] \notin DOMAIN step[i][1].inputs } })
    \cup (IF completion[i] # <<>> /\ ~completion[i][1].ok
          THEN {completion[i][1].error.arg} ELSE {})

\* What invocation i holds: everything of the state that is indexed by it.
Own(i) ==
    <<stage[i], view[i], bound[i], step[i], response[i], adapter[i], completion[i],
      fault[i], calls[i], sfCalls[i]>>

\* C9 (state part): what save_step bound for an invocation is what that
\* invocation submitted; what its execute_step sent, completed with or
\* failed with comes from its own inputs, its own CRM response and its own
\* errors.
C9_OwnDataOnly ==
    \A i \in Invocations :
        /\ bound[i] # <<>> =>
             \A k \in 1..3 : bound[i][1].inputs[InputNames[k]].value = Submitted(i, k)
        /\ \A k \in 1..Len(sfCalls[i]) :
             /\ sfCalls[i][k].Subject = Submitted(i, 1)
             /\ sfCalls[i][k].Description = Submitted(i, 2)
             /\ sfCalls[i][k].Priority = Submitted(i, 3)
        /\ \A k \in 1..Len(calls[i]) :
             /\ calls[i][k].fn = "complete" =>
                  /\ RemoteSucceeded(i)
                  /\ calls[i][k].outputs.case_id = response[i][1].response.id
             /\ calls[i][k].fn = "fail" =>
                  calls[i][k].error.message \in OwnErrorTexts(i)

\* C9 (step part): a callback of one invocation changes nothing another
\* invocation holds, and no callback changes the shared CRM client.
C9_StepIsolated ==
    pc = "listening" =>
        /\ sf' = sf
        /\ \A i, j \in Invocations :
             (i # j /\ Own(i)' # Own(i)) => Own(j)' = Own(j)

\* C9: under any interleaving of the callbacks of the invocations, each
\* invocation's bound inputs and outcome depend on its own data only, and
\* the callbacks modify neither the shared CRM client nor each other's state.
C9_Isolation == []C9_OwnDataOnly /\ [][C9_StepIsolated]_vars

C9_Witness ==
    \E i, j \in Invocations :
        /\ i # j
        /\ stage[i] = "done" /\ stage[j] = "done"
        /\ RemoteSucceeded(i) /\ RemoteFailed(j)
        /\ Submitted(i, 1) # Submitted(j, 1)
        /\ sfCalls[i] # <<>> /\ sfCalls[j] # <<>>
        /\ CallsOf(i, "complete") # <<>> /\ CallsOf(j, "fail") # <<>>

\* C10: whatever happened before, edit_step first acknowledges and then
\* configures the same form of three inputs in the order subject
\* (single-line), description (multi-line), priority (single-line, with a
\* placeholder and nothing else); it makes no CRM call and binds nothing.
C10_EditIsFixed ==
    \A i \in Invocations :
        stage[i] # "idle" =>
            /\ Len(calls[i]) >= 2
            /\ calls[i][1] = [fn |-> "ack"]
            /\ calls[i][2].fn = "configure"
            /\ Len(CallsOf(i, "configure")) = 1
            /\ LET b == calls[i][2].blocks
               IN  /\ Len(b) = 3
                   /\ \A k \in 1..3 : /\ b[k].type = "input"
                                      /\ b[k].block_id = BlockIds[k]
                                      /\ b[k].element.type = "plain_text_input"
                                      /\ b[k].element.action_id = ActionIds[k]
                   /\ "multiline" \notin DOMAIN b[1].element
                   /\ "multiline" \in DOMAIN b[2].element /\ b[2].element.multiline
                   /\ DOMAIN b[3].element = {"type", "action_id", "placeholder"}
                   /\ b[3].element.placeholder.text = "High/Medium/Low"
                   /\ \A j \in Invocations :
                        stage[j] # "idle" => calls[j][2].blocks = b
            /\ stage[i] = "configuring" =>
                 /\ Len(calls[i]) = 2
                 /\ sfCalls[i] = <<>>
                 /\ bound[i] = <<>>
                 /\ response[i] = <<>>

C10_Witness ==
    \E i, j \in Invocations :
        /\ stage[i] = "done"
        /\ sfCalls[i] # <<>>
        /\ stage[j] = "configuring"
        /\ Len(calls[j]) = 2

====
